---- MODULE Spec2Model ----
(***************************************************************************)
(* A model of the gemini-chatbot repository: the relay service             *)
(* (src/server.js) and the chat client (src/unnamed/part_000).             *)
(***************************************************************************)
EXTENDS Integers, Sequences, FiniteSets, TLC

(***************************************************************************)
(* Bounds                                                                  *)
(***************************************************************************)
\* longest uploaded file buffer, in bytes
MaxBufLen == 3

\* submissions whose fetch, timers or messages exist at the same time
MaxSubmits == 2

(***************************************************************************)
(* JavaScript values                                                       *)
(***************************************************************************)
\* the JavaScript value undefined (a missing property, an unset variable)
undefined == "<undefined>"

\* the JavaScript value null
null == "<null>"

\* !v for the values a prompt, a key or a file reference can take
Falsy(v) == v = undefined \/ v = null \/ v = ""

\* a || d
OrElse(v, d) == IF Falsy(v) THEN d ELSE v

(***************************************************************************)
(* Buffer.toString('base64')                                               *)
(***************************************************************************)
B64Chars ==
  <<
       "A", "B", "C", "D", "E", "F", "G", "H", "I", "J", "K", "L", "M", "N", "O", "P",
       "Q", "R", "S", "T", "U", "V", "W", "X", "Y", "Z", "a", "b", "c", "d", "e", "f",
       "g", "h", "i", "j", "k", "l", "m", "n", "o", "p", "q", "r", "s", "t", "u", "v",
       "w", "x", "y", "z", "0", "1", "2", "3", "4", "5", "6", "7", "8", "9", "+", "/" >>

B64Char(i) == B64Chars[i + 1]

RECURSIVE Base64(_)
Base64(b) ==
  IF Len(b) = 0 THEN << >>
  ELSE IF Len(b) = 1 THEN
    << B64Char(b[1] \div 4), B64Char((b[1] % 4) * 16), "=", "=" >>
  ELSE IF Len(b) = 2 THEN
    << B64Char(b[1] \div 4), B64Char((b[1] % 4) * 16 + (b[2] \div 16)),
       B64Char((b[2] % 16) * 4), "=" >>
  ELSE
    << B64Char(b[1] \div 4), B64Char((b[1] % 4) * 16 + (b[2] \div 16)),
       B64Char((b[2] % 16) * 4 + (b[3] \div 64)), B64Char(b[3] % 64) >>
    \o Base64(SubSeq(b, 4, Len(b)))

(***************************************************************************)
(* JSON texts.  A text on the wire is abstracted as the value it denotes   *)
(* together with its formatting; a text that is not JSON denotes nothing.  *)
(***************************************************************************)
NoValue == [nothing |-> TRUE]

\* JSON.stringify(v): the compact text of v
JSONStringify(v) == [json |-> TRUE, value |-> v, format |-> "compact"]

\* response.json(): the value of a JSON text, or a SyntaxError
JSONParse(raw) ==
  IF raw.json THEN [ok |-> TRUE, value |-> raw.value]
  ELSE [ok |-> FALSE, value |-> NoValue]

(***************************************************************************)
(* State                                                                   *)
(***************************************************************************)
VARIABLES
  \* relay service (src/server.js)
  API_KEY,        \* process.env.API_KEY
  req,            \* the request being served, as it arrived on the wire
  rpc,            \* how far the request has travelled through the app
  reqBody,        \* req.body
  reqFile,        \* req.file
  res,            \* the response sent for the request
  upstreamCalls,  \* the fetch calls issued for the request
  \* chat client (src/unnamed/part_000)
  prompt,               \* let prompt
  isResponseGenerating, \* let isResponseGenerating
  chatHistory,          \* let chatHistory
  attachedImageFile,    \* let attachedImageFile
  imagePreview,         \* the file shown in #image-preview
  chatList,             \* the children of .chat-list, in document order
  requests,             \* the fetch calls of processPrompt not yet settled
  timeouts,             \* the pending setTimeout(showLoadingAnimation, 500)
  intervals             \* the running setInterval of showTypingEffect

relayVars == << API_KEY, req, rpc, reqBody, reqFile, res, upstreamCalls >>

clientVars == << prompt, isResponseGenerating, chatHistory, attachedImageFile,
                 imagePreview, chatList, requests, timeouts, intervals >>

vars == << API_KEY, req, rpc, reqBody, reqFile, res, upstreamCalls,
           prompt, isResponseGenerating, chatHistory, attachedImageFile,
           imagePreview, chatList, requests, timeouts, intervals >>

(***************************************************************************)
(* Chat client: inputs                                                     *)
(***************************************************************************)
\* what the user can have typed into #prompt, and its value.trim()
InputTexts == { "", "  ", "hi", " hi " }

Trim(t) == IF t = "" \/ t = "  " THEN "" ELSE "hi"

\* the texts of the suggestion chips
SuggestionTexts == { "hi" }

\* the image files the user can pick
ImageFiles == { "cat.png", "dog.png" }

\* the reply texts of the upstream API, as sequences of characters
ReplyTexts == { << >>, << "H", "i", " ", "y", "o" >> }

\* a reply payload with a first candidate text
WithText(t) ==
  [ candidates |-> << [ content |-> [ parts |-> << [ text |-> t ] >> ] ] >> ]

\* a reply payload without candidates
NoCandidates == [ candidates |-> << >> ]

\* how a fetch to the relay can settle
FetchOutcomes ==
  { [ kind |-> "TypeError", status |-> 0, data |-> NoCandidates ],
    [ kind |-> "response", status |-> 500, data |-> NoCandidates ],
    [ kind |-> "response", status |-> 200, data |-> NoCandidates ] }
  \cup
  { [ kind |-> "response", status |-> 200, data |-> WithText(t) ] : t \in ReplyTexts }

\* data?.candidates?.[0]?.content?.parts?.[0]?.text, where the payload has one
FirstCandidateText(data) == data.candidates[1].content.parts[1].text

\* !rawApiResponse: the payload has no first candidate text, or an empty one
NoCandidateText(data) ==
  Len(data.candidates) = 0 \/ FirstCandidateText(data) = << >>

\* marked.parse(t): the HTML of the markdown text t
Marked(t) == [ markdown |-> t ]

\* String.prototype.split(" ")
RECURSIVE SplitOnSpace(_)
SplitOnSpace(t) ==
  IF \A i \in 1..Len(t) : t[i] # " " THEN << t >>
  ELSE LET k == CHOOSE i \in 1..Len(t) :
                   t[i] = " " /\ \A j \in 1..(i - 1) : t[j] # " "
       IN  << SubSeq(t, 1, k - 1) >> \o SplitOnSpace(SubSeq(t, k + 1, Len(t)))

(***************************************************************************)
(* Chat client: the visible list                                           *)
(***************************************************************************)
\* createMessageElement(html, "outgoing") of handleOutgoingMessage: rid is
\* the request the element was created for
OutgoingElement(rid, text, image) ==
  [ rid |-> rid, cls |-> "outgoing", content |-> [ prompt |-> text, image |-> image ] ]

\* createMessageElement(html, "incoming", "loading") of showLoadingAnimation
LoadingElement(rid) ==
  [ rid |-> rid, cls |-> "loading", content |-> [ empty |-> TRUE ] ]

\* createMessageElement(html, "incoming") of handleIncomingMessage
IncomingElement(rid, content) ==
  [ rid |-> rid, cls |-> "incoming", content |-> content ]

\* document.querySelector(".loading")?.remove(): removes the first one
RemoveFirstLoading(list) ==
  IF \E i \in 1..Len(list) : list[i].cls = "loading"
  THEN LET k == CHOOSE i \in 1..Len(list) :
                    list[i].cls = "loading"
                    /\ \A j \in 1..(i - 1) : list[j].cls # "loading"
       IN  SubSeq(list, 1, k - 1) \o SubSeq(list, k + 1, Len(list))
  ELSE list

\* the position in the list of the incoming element of request rid, or 0
\* when the element is no longer in the document
IncomingAt(list, rid) ==
  IF \E i \in 1..Len(list) : list[i].cls = "incoming" /\ list[i].rid = rid
  THEN CHOOSE i \in 1..Len(list) : list[i].cls = "incoming" /\ list[i].rid = rid
  ELSE 0

(***************************************************************************)
(* Chat client: operations                                                 *)
(***************************************************************************)
ClientInit ==
  /\ prompt = null
  /\ isResponseGenerating = FALSE
  /\ chatHistory = << >>
  /\ attachedImageFile = null
  /\ imagePreview = null
  /\ chatList = << >>
  /\ requests = { }
  /\ timeouts = { }
  /\ intervals = { }

\* the submissions something of which still exists: a message in the list,
\* a pending timer, a running interval or an unsettled fetch
LiveRids ==
  { chatList[i].rid : i \in 1..Len(chatList) }
  \cup timeouts
  \cup { iv.rid : iv \in intervals }
  \cup { r.rid : r \in requests }

FreeRids == (1..MaxSubmits) \ LiveRids

\* a guard that only looks at the in-flight flag
IgnoredOnlyWhenBusy(p, attached, generating) == generating

\* the guard of handleOutgoingMessage
Ignored(p, attached, generating) ==
  (Falsy(p) /\ Falsy(attached)) \/ generating

\* handleOutgoingMessage(), with processPrompt(prompt) up to its fetch; p is
\* the value the caller has just given to the global prompt
HandleOutgoingMessage(p) ==
  /\ prompt' = p
  /\ IF Ignored(p, attachedImageFile, isResponseGenerating)
     THEN UNCHANGED << isResponseGenerating, chatHistory, attachedImageFile,
                       imagePreview, chatList, requests, timeouts, intervals >>
     ELSE /\ FreeRids # { }
          /\ LET rid == CHOOSE r \in FreeRids : \A q \in FreeRids : r <= q
             IN  /\ isResponseGenerating' = TRUE
                 /\ chatList' = Append(chatList, OutgoingElement(rid, p, attachedImageFile))
                 /\ timeouts' = timeouts \cup { rid }
                 /\ requests' = requests \cup
                      { [ rid        |-> rid,
                          userPrompt |-> p,
                          multipart  |-> ~Falsy(attachedImageFile) ] }
          /\ UNCHANGED << chatHistory, attachedImageFile, imagePreview, intervals >>

\* the submit handler of the prompt form
SubmitForm ==
  /\ \E typed \in InputTexts : HandleOutgoingMessage(Trim(typed))
  /\ UNCHANGED relayVars

\* the click handler of a suggestion chip
SuggestionClick ==
  /\ \E text \in SuggestionTexts : HandleOutgoingMessage(text)
  /\ UNCHANGED relayVars

\* a change handler that drops the pending attachment when no file is chosen
ImageSelectedOrCleared(file) ==
  /\ IF Falsy(file)
     THEN attachedImageFile' = null /\ imagePreview' = null
     ELSE /\ attachedImageFile' = file
          /\ imagePreview' = file
  /\ UNCHANGED << prompt, isResponseGenerating, chatHistory, chatList,
                  requests, timeouts, intervals >>
  /\ UNCHANGED relayVars

\* the change handler of the file input, for e.target.files[0] = file
ImageSelected(file) ==
  /\ IF Falsy(file)
     THEN UNCHANGED << attachedImageFile, imagePreview >>
     ELSE /\ attachedImageFile' = file
          /\ imagePreview' = file
  /\ UNCHANGED << prompt, isResponseGenerating, chatHistory, chatList,
                  requests, timeouts, intervals >>
  /\ UNCHANGED relayVars

\* the change handler of the file input
ImageChange == \E file \in ImageFiles \cup { undefined } : ImageSelected(file)

\* the click handler of the remove button inside the preview
RemoveImage ==
  /\ imagePreview # null
  /\ attachedImageFile' = null
  /\ imagePreview' = null
  /\ UNCHANGED << prompt, isResponseGenerating, chatHistory, chatList,
                  requests, timeouts, intervals >>
  /\ UNCHANGED relayVars

\* the 500 ms timer of handleOutgoingMessage fires
ShowLoadingAnimation ==
  /\ \E rid \in timeouts :
        /\ timeouts' = timeouts \ { rid }
        /\ chatList' = Append(chatList, LoadingElement(rid))
  /\ UNCHANGED << prompt, isResponseGenerating, chatHistory, attachedImageFile,
                  imagePreview, requests, intervals >>
  /\ UNCHANGED relayVars

\* the catch handler of processPrompt for the fetch r, run on the visible
\* list `list`; the element shows 'An error occurred: ' and error.message,
\* whose text (`message`) is not kept
CatchHandler(list, r, message) ==
  /\ isResponseGenerating' = FALSE
  /\ chatList' = Append(RemoveFirstLoading(list),
                        IncomingElement(r.rid, [ kind |-> "error" ]))
  /\ requests' = requests \ { r }
  /\ UNCHANGED << chatHistory, attachedImageFile, imagePreview, intervals >>

\* the second then handler of processPrompt for the fetch r and the payload
\* `data`
ThenHandler(r, data) ==
  LET list == RemoveFirstLoading(chatList)
  IN  IF NoCandidateText(data)
      THEN CatchHandler(list, r, "Invalid response from API")
      ELSE LET rawApiResponse    == FirstCandidateText(data)
               parsedApiResponse == Marked(rawApiResponse)
               userPrompt        == r.userPrompt
               rid               == r.rid
           IN  IF ~Falsy(attachedImageFile)
               THEN /\ chatList' =
                         Append(list, IncomingElement(rid,
                                  [ kind |-> "html", html |-> parsedApiResponse ]))
                    /\ isResponseGenerating' = FALSE
                    /\ chatHistory' =
                         Append(chatHistory,
                                [ userMessage |-> userPrompt, apiResponse |-> data,
                                  imageUrl |-> attachedImageFile ])
                    /\ attachedImageFile' = null
                    /\ imagePreview' = null
                    /\ requests' = requests \ { r }
                    /\ UNCHANGED intervals
               ELSE /\ chatList' =
                         Append(list, IncomingElement(rid,
                                  [ kind |-> "text", text |-> << >> ]))
                    /\ intervals' = intervals \cup
                         { [ rid |-> rid, words |-> SplitOnSpace(rawApiResponse),
                             currWordIndex |-> 0, parsedText |-> parsedApiResponse ] }
                    /\ chatHistory' =
                         Append(chatHistory,
                                [ userMessage |-> userPrompt, apiResponse |-> data ])
                    /\ requests' = requests \ { r }
                    /\ UNCHANGED << isResponseGenerating, attachedImageFile, imagePreview >>

\* a fetch of processPrompt settles and its then or catch handlers run
FetchSettles ==
  /\ \E r \in requests :
        \E outcome \in FetchOutcomes :
           IF outcome.kind = "TypeError" THEN CatchHandler(chatList, r, "Failed to fetch")
           ELSE IF ~(outcome.status >= 200 /\ outcome.status <= 299)
                THEN CatchHandler(chatList, r, "Server error: 500")
           ELSE ThenHandler(r, outcome.data)
  /\ UNCHANGED << prompt, timeouts >>
  /\ UNCHANGED relayVars

\* a tick whose last round forgets to reset the in-flight flag
TypingTickNoReset(rid) ==
  /\ \E iv \in { i \in intervals : i.rid = rid } :
        LET word  == iv.words[iv.currWordIndex + 1]
            next  == iv.currWordIndex + 1
            at    == IncomingAt(chatList, iv.rid)
            typed == IF at = 0 THEN << >>
                     ELSE chatList[at].content.text
                            \o (IF iv.currWordIndex = 0 THEN << >> ELSE << " " >>)
                            \o word
        IN  IF next = Len(iv.words)
            THEN /\ intervals' = intervals \ { iv }
                 /\ UNCHANGED isResponseGenerating
                 /\ chatList' =
                      IF at = 0 THEN chatList
                      ELSE [ chatList EXCEPT ![at].content =
                               [ kind |-> "html", html |-> iv.parsedText ] ]
            ELSE /\ intervals' = (intervals \ { iv })
                                   \cup { [ iv EXCEPT !.currWordIndex = next ] }
                 /\ chatList' =
                      IF at = 0 THEN chatList
                      ELSE [ chatList EXCEPT ![at].content =
                               [ kind |-> "text", text |-> typed ] ]
                 /\ UNCHANGED isResponseGenerating
  /\ UNCHANGED << prompt, chatHistory, attachedImageFile, imagePreview,
                  requests, timeouts >>
  /\ UNCHANGED relayVars

\* one tick of the setInterval that showTypingEffect started for the reply
\* to submission rid
TypingTickOf(rid) ==
  /\ \E iv \in { i \in intervals : i.rid = rid } :
        LET word  == iv.words[iv.currWordIndex + 1]
            next  == iv.currWordIndex + 1
            at    == IncomingAt(chatList, iv.rid)
            typed == IF at = 0 THEN << >>
                     ELSE chatList[at].content.text
                            \o (IF iv.currWordIndex = 0 THEN << >> ELSE << " " >>)
                            \o word
        IN  IF next = Len(iv.words)
            THEN /\ intervals' = intervals \ { iv }
                 /\ isResponseGenerating' = FALSE
                 /\ chatList' =
                      IF at = 0 THEN chatList
                      ELSE [ chatList EXCEPT ![at].content =
                               [ kind |-> "html", html |-> iv.parsedText ] ]
            ELSE /\ intervals' = (intervals \ { iv })
                                   \cup { [ iv EXCEPT !.currWordIndex = next ] }
                 /\ chatList' =
                      IF at = 0 THEN chatList
                      ELSE [ chatList EXCEPT ![at].content =
                               [ kind |-> "text", text |-> typed ] ]
                 /\ UNCHANGED isResponseGenerating
  /\ UNCHANGED << prompt, chatHistory, attachedImageFile, imagePreview,
                  requests, timeouts >>
  /\ UNCHANGED relayVars

\* one tick of a running setInterval of showTypingEffect
TypingTick == \E rid \in 1..MaxSubmits : TypingTickOf(rid)

\* a delete handler that leaves the pending attachment alone
DeleteChatKeepsAttachment(confirmed) ==
  /\ IF confirmed
     THEN /\ chatHistory' = << >>
          /\ chatList' = << >>
          /\ prompt' = null
          /\ isResponseGenerating' = FALSE
          /\ UNCHANGED << attachedImageFile, imagePreview >>
     ELSE UNCHANGED << chatHistory, chatList, prompt, isResponseGenerating,
                       attachedImageFile, imagePreview >>
  /\ UNCHANGED << requests, timeouts, intervals >>
  /\ UNCHANGED relayVars

\* the click handler of the delete button, for the answer to confirm()
DeleteChatAnswered(confirmed) ==
  /\ IF confirmed
     THEN /\ chatHistory' = << >>
          /\ chatList' = << >>
          /\ prompt' = null
          /\ isResponseGenerating' = FALSE
          /\ attachedImageFile' = null
          /\ imagePreview' = null
     ELSE UNCHANGED << chatHistory, chatList, prompt, isResponseGenerating,
                       attachedImageFile, imagePreview >>
  /\ UNCHANGED << requests, timeouts, intervals >>
  /\ UNCHANGED relayVars

\* the click handler of the delete button
DeleteChat == \E confirmed \in BOOLEAN : DeleteChatAnswered(confirmed)

(***************************************************************************)
(* Relay service: inputs                                                   *)
(***************************************************************************)
ApiKeys == { undefined, "", "AIza-key" }

PromptTexts == { "", "Hello" }

Bytes == { 0, 77, 255 }

RECURSIVE SeqsUpTo(_, _)
SeqsUpTo(S, n) ==
  IF n = 0 THEN { << >> }
  ELSE LET shorter == SeqsUpTo(S, n - 1)
       IN  shorter \cup { Append(q, x) : q \in shorter, x \in S }

Buffers == SeqsUpTo(Bytes, MaxBufLen)

NoFile == [nofile |-> TRUE]

\* the file parts a multipart body can carry
Files ==
  [ fieldname : { "image", "avatar" },
    mimetype  : { "", "image/png" },
    buffer    : Buffers ]

NoRequest ==
  [ method |-> "none", path |-> "none", origin |-> "none",
    ctype |-> "none", malformed |-> FALSE, prompt |-> undefined, file |-> NoFile ]

\* the origin the CORS middleware names in Access-Control-Allow-Origin
AllowedOrigin == "http://127.0.0.1:5500"

\* the Origin header of a request: the served page or another site
Origins == { AllowedOrigin, "http://evil.example" }

\* the paths of the three routes
Paths == { "/", "/api/config", "/api/gemini" }

\* POST /api/gemini requests
GenerateRequests ==
  [ method : { "POST" }, path : { "/api/gemini" }, origin : Origins,
    ctype : { "application/json" }, malformed : { FALSE },
    prompt : PromptTexts \cup { undefined }, file : { NoFile } ]
  \cup
  [ method : { "POST" }, path : { "/api/gemini" }, origin : Origins,
    ctype : { "application/json" }, malformed : { TRUE },
    prompt : { undefined }, file : { NoFile } ]
  \cup
  [ method : { "POST" }, path : { "/api/gemini" }, origin : Origins,
    ctype : { "multipart/form-data" }, malformed : { FALSE },
    prompt : PromptTexts \cup { undefined }, file : Files \cup { NoFile } ]
  \cup
  [ method : { "POST" }, path : { "/api/gemini" }, origin : Origins,
    ctype : { "text/plain" }, malformed : { FALSE },
    prompt : { undefined }, file : { NoFile } ]

\* GET / and GET /api/config requests, and the preflight of every route
BodylessRequests ==
  [ method : { "GET" }, path : { "/", "/api/config" }, origin : Origins,
    ctype : { "none" }, malformed : { FALSE },
    prompt : { undefined }, file : { NoFile } ]
  \cup
  [ method : { "OPTIONS" }, path : Paths, origin : Origins,
    ctype : { "none" }, malformed : { FALSE },
    prompt : { undefined }, file : { NoFile } ]

\* the requests the relay is sent
Requests == GenerateRequests \cup BodylessRequests

\* what the upstream API can answer
CandidatesValue ==
  [ candidates |-> << [ content |-> [ parts |-> << [ text |-> "Hi there" ] >> ] ] >> ]

QuotaValue == [ error |-> [ code |-> 429, status |-> "RESOURCE_EXHAUSTED" ] ]

NotJSON == [ json |-> FALSE, value |-> [ html |-> "<html>Bad Gateway</html>" ], format |-> "verbatim" ]

RawBodies ==
  [ json : { TRUE }, value : { CandidatesValue, QuotaValue }, format : { "compact", "pretty" } ]
  \cup { NotJSON }

UpstreamStatuses == { 200, 201, 429, 503 }

UpstreamOutcomes ==
  [ kind : { "response" }, status : UpstreamStatuses, body : RawBodies ]
  \cup { [ kind |-> "TypeError", status |-> 0, body |-> NotJSON ] }

\* response.ok
Ok(response) == response.status >= 200 /\ response.status <= 299

NoResponse == [ status |-> 0, type |-> "none", body |-> NoValue ]

(***************************************************************************)
(* Relay service: responses                                                *)
(***************************************************************************)
\* res.status(s).json(body)
Json(s, body) == [ status |-> s, type |-> "json", body |-> body ]

\* res.sendStatus(s): the status with its reason phrase as text
SendStatus(s) == [ status |-> s, type |-> "text", body |-> [ text |-> "OK" ] ]

\* res.json({ message: 'Gemini API Server is running' }) of GET /
Running == Json(200, [ message |-> "Gemini API Server is running" ])

\* res.json({ API_KEY: process.env.API_KEY }) of GET /api/config; an
\* undefined member is left out of the JSON text
Config(key) ==
  Json(200, IF key = undefined THEN [ members |-> 0 ] ELSE [ API_KEY |-> key ])

\* Express's final handler: no error middleware is registered, so an error
\* handed to next(err) is answered with an HTML page
FinalHandler(errStatus) ==
  [ status |-> IF errStatus = 0 THEN 500 ELSE errStatus,
    type |-> "html", body |-> [ html |-> "<pre>Error</pre>" ] ]

\* the bytes sent for a response
Wire(r) ==
  IF r.type = "json" THEN JSONStringify(r.body)
  ELSE [ json |-> FALSE, value |-> r.body, format |-> "verbatim" ]

DefaultPrompt == "What is in this image? Describe it in detail."

ApiUrl(key) ==
  [ url |-> "https://generativelanguage.googleapis.com/v1/models/gemini-2.5-flash:generateContent",
    key |-> key ]

MimeType(file) == OrElse(file.mimetype, "image/jpeg")

\* the text part without the fallback to the default prompt
TextPartNoDefault(userPrompt) == [ text |-> userPrompt ]

TextPart(userPrompt) == [ text |-> OrElse(userPrompt, DefaultPrompt) ]

MultimodalRequest(userPrompt, file) ==
  [ contents |->
      << [ parts |->
             << [ inline_data |->
                    [ mime_type |-> MimeType(file), data |-> Base64(file.buffer) ] ],
                TextPart(userPrompt) >> ] >> ]

\* a text-only payload that also names a role
TextRequestWithRole(userPrompt) ==
  [ contents |-> << [ role |-> "user", parts |-> << [ text |-> userPrompt ] >> ] >> ]

TextRequest(userPrompt) == [ contents |-> << [ parts |-> << [ text |-> userPrompt ] >> ] >> ]

ConfigError == Json(500, [ error |-> "API_KEY not configured in .env file" ])

MissingInput == Json(400, [ error |-> "Prompt is required when no image is uploaded" ])

UpstreamError(status, errorData) ==
  Json(status, [ error |-> "Gemini API request failed", details |-> errorData ])

InternalError(message) ==
  Json(500, [ error |-> "Internal server error", message |-> message ])

(***************************************************************************)
(* Relay service: the path of one request                                  *)
(***************************************************************************)
\* a request arrives
Receive ==
  /\ UNCHANGED clientVars
  /\ rpc = "idle"
  /\ \E r \in Requests : req' = r
  /\ rpc' = "express.json"
  /\ reqBody' = [ prompt |-> undefined ]
  /\ reqFile' = NoFile
  /\ res' = NoResponse
  /\ upstreamCalls' = << >>
  /\ UNCHANGED API_KEY

\* app.use(express.json()): parses a JSON body into req.body; a body that
\* is not JSON is a 400 error handed to next(err)
ExpressJson ==
  /\ UNCHANGED clientVars
  /\ rpc = "express.json"
  /\ IF req.ctype = "application/json"
     THEN IF req.malformed
          THEN /\ res' = FinalHandler(400)
               /\ rpc' = "done"
               /\ UNCHANGED reqBody
          ELSE /\ reqBody' = [ prompt |-> req.prompt ]
               /\ rpc' = "cors"
               /\ UNCHANGED res
     ELSE /\ rpc' = "cors"
          /\ UNCHANGED << reqBody, res >>
  /\ UNCHANGED << API_KEY, req, reqFile, upstreamCalls >>

\* the route of a request the middleware passed on
Route(r) ==
  IF r.method = "GET" /\ r.path = "/" THEN "app.get /"
  ELSE IF r.method = "GET" /\ r.path = "/api/config" THEN "app.get /api/config"
  ELSE "upload.single"

\* the CORS middleware: sets the three headers, whatever the Origin of the
\* request, answers a preflight itself and calls next() for the rest
Cors ==
  /\ UNCHANGED clientVars
  /\ rpc = "cors"
  /\ IF req.method = "OPTIONS"
     THEN /\ res' = SendStatus(200)
          /\ rpc' = "done"
     ELSE /\ rpc' = Route(req)
          /\ UNCHANGED res
  /\ UNCHANGED << API_KEY, req, reqBody, reqFile, upstreamCalls >>

\* the handler of GET /
GetRoot ==
  /\ UNCHANGED clientVars
  /\ rpc = "app.get /"
  /\ res' = Running
  /\ rpc' = "done"
  /\ UNCHANGED << API_KEY, req, reqBody, reqFile, upstreamCalls >>

\* the handler of GET /api/config
GetConfig ==
  /\ UNCHANGED clientVars
  /\ rpc = "app.get /api/config"
  /\ res' = Config(API_KEY)
  /\ rpc' = "done"
  /\ UNCHANGED << API_KEY, req, reqBody, reqFile, upstreamCalls >>

\* upload.single('image'): reads a multipart body into req.body and
\* req.file; a file in another field is a MulterError handed to next(err)
UploadSingle ==
  /\ UNCHANGED clientVars
  /\ rpc = "upload.single"
  /\ IF req.ctype = "multipart/form-data"
     THEN IF req.file # NoFile /\ req.file.fieldname # "image"
          THEN /\ res' = FinalHandler(0)
               /\ rpc' = "done"
               /\ UNCHANGED << reqBody, reqFile >>
          ELSE /\ reqBody' = [ prompt |-> req.prompt ]
               /\ reqFile' = req.file
               /\ rpc' = "handler"
               /\ UNCHANGED res
     ELSE /\ rpc' = "handler"
          /\ UNCHANGED << reqBody, reqFile, res >>
  /\ UNCHANGED << API_KEY, req, upstreamCalls >>

\* a decision of the route handler: answer at once, or call upstream
Answer(r) == [ answered |-> TRUE, res |-> r, payload |-> NoValue ]

Forward(payload) == [ answered |-> FALSE, res |-> NoResponse, payload |-> payload ]

\* an image branch that never looks at the key
ImageBranchNoKeyCheck(userPrompt, file, key) ==
  Forward(MultimodalRequest(userPrompt, file))

\* the image branch of the route handler, up to its await
ImageBranch(userPrompt, file, key) ==
  IF Falsy(key) THEN Answer(ConfigError)
  ELSE Forward(MultimodalRequest(userPrompt, file))

\* a text-only branch that looks at the key before the prompt
TextBranchKeyFirst(userPrompt, key) ==
  IF Falsy(key) THEN Answer(ConfigError)
  ELSE IF Falsy(userPrompt) THEN Answer(MissingInput)
  ELSE Forward(TextRequest(userPrompt))

\* the text-only branch of the route handler, up to its await
TextBranch(userPrompt, key) ==
  IF Falsy(userPrompt) THEN Answer(MissingInput)
  ELSE IF Falsy(key) THEN Answer(ConfigError)
  ELSE Forward(TextRequest(userPrompt))

\* the route handler, up to its first await or its return
GeminiHandler ==
  /\ UNCHANGED clientVars
  /\ rpc = "handler"
  /\ LET userPrompt == reqBody.prompt
         file   == reqFile
         step   == IF file # NoFile THEN ImageBranch(userPrompt, file, API_KEY)
                   ELSE TextBranch(userPrompt, API_KEY)
     IN  IF step.answered
         THEN /\ res' = step.res
              /\ rpc' = "done"
              /\ UNCHANGED upstreamCalls
         ELSE /\ upstreamCalls' =
                   Append(upstreamCalls,
                          [ url |-> ApiUrl(API_KEY), body |-> step.payload ])
              /\ rpc' = IF file # NoFile THEN "await image" ELSE "await text"
              /\ UNCHANGED res
  /\ UNCHANGED << API_KEY, req, reqBody, reqFile >>

\* a relay that wraps the upstream's value on success
RelayedWrapped(outcome) ==
  IF outcome.kind # "response"
  THEN InternalError("fetch failed")
  ELSE LET parsed == JSONParse(outcome.body)
       IN  IF ~Ok(outcome)
           THEN IF parsed.ok
                THEN UpstreamError(outcome.status, parsed.value)
                ELSE InternalError("Unexpected token")
           ELSE IF parsed.ok
                THEN Json(200, [ data |-> parsed.value ])
                ELSE InternalError("Unexpected token")

\* what the handler answers once the upstream call has settled
Relayed(outcome) ==
  IF outcome.kind # "response"
  THEN InternalError("fetch failed")
  ELSE LET parsed == JSONParse(outcome.body)
       IN  IF ~Ok(outcome)
           THEN IF parsed.ok
                THEN UpstreamError(outcome.status, parsed.value)
                ELSE InternalError("Unexpected token")
           ELSE IF parsed.ok
                THEN Json(200, parsed.value)
                ELSE InternalError("Unexpected token")

\* the image branch resumes with the upstream's answer
ImageBranchResume ==
  /\ UNCHANGED clientVars
  /\ rpc = "await image"
  /\ \E outcome \in UpstreamOutcomes :
        /\ res' = Relayed(outcome)
        /\ upstreamCalls' =
             [ upstreamCalls EXCEPT ![Len(upstreamCalls)] =
                 [ url |-> @.url, body |-> @.body, outcome |-> outcome ] ]
  /\ rpc' = "done"
  /\ UNCHANGED << API_KEY, req, reqBody, reqFile >>

\* the text branch resumes with the upstream's answer
TextBranchResume ==
  /\ UNCHANGED clientVars
  /\ rpc = "await text"
  /\ \E outcome \in UpstreamOutcomes :
        /\ res' = Relayed(outcome)
        /\ upstreamCalls' =
             [ upstreamCalls EXCEPT ![Len(upstreamCalls)] =
                 [ url |-> @.url, body |-> @.body, outcome |-> outcome ] ]
  /\ rpc' = "done"
  /\ UNCHANGED << API_KEY, req, reqBody, reqFile >>

\* the response has been sent; the relay keeps nothing of the request
Finish ==
  /\ UNCHANGED clientVars
  /\ rpc = "done"
  /\ rpc' = "idle"
  /\ req' = NoRequest
  /\ reqBody' = [ prompt |-> undefined ]
  /\ reqFile' = NoFile
  /\ res' = NoResponse
  /\ upstreamCalls' = << >>
  /\ UNCHANGED API_KEY

RelayInit ==
  /\ API_KEY \in ApiKeys
  /\ req = NoRequest
  /\ rpc = "idle"
  /\ reqBody = [ prompt |-> undefined ]
  /\ reqFile = NoFile
  /\ res = NoResponse
  /\ upstreamCalls = << >>

RelayNext ==
  \/ Receive
  \/ ExpressJson
  \/ Cors
  \/ GetRoot
  \/ GetConfig
  \/ UploadSingle
  \/ GeminiHandler
  \/ ImageBranchResume
  \/ TextBranchResume
  \/ Finish

\* the relay starts with one of the credentials; the client is left alone
RelayStart == RelayInit /\ ClientInit

RelaySpec == RelayStart /\ [][RelayNext]_vars

(***************************************************************************)
(* Chat client: specification                                              *)
(***************************************************************************)
Init ==
  /\ ClientInit
  /\ RelayInit
  /\ API_KEY = "AIza-key"

Next ==
  \/ SubmitForm
  \/ SuggestionClick
  \/ ImageChange
  \/ RemoveImage
  \/ ShowLoadingAnimation
  \/ FetchSettles
  \/ TypingTick
  \/ DeleteChat

Spec == Init /\ [][Next]_vars

\* the event loop runs every timer that is due and every fetch settles
Fairness ==
  /\ WF_vars(FetchSettles)
  /\ WF_vars(ShowLoadingAnimation)
  /\ \A rid \in 1..MaxSubmits : WF_vars(TypingTickOf(rid))

LiveSpec == Init /\ [][Next]_vars /\ Fairness

(***************************************************************************)
(* Relay service: properties                                               *)
(***************************************************************************)
\* the credential is unset
Unset == API_KEY = undefined \/ API_KEY = ""

\* the request carries a non-empty prompt
HasPrompt(r) == r.prompt # undefined /\ r.prompt # ""

\* the request carries a file in the field the route reads
HasImage(r) == r.file # NoFile /\ r.file.fieldname = "image"

\* the request carries a file in another field
UnexpectedFile(r) == r.file # NoFile /\ r.file.fieldname # "image"

\* the request is a Generate call
Generate(r) == r.method = "POST" /\ r.path = "/api/gemini"

\* the request is a Generate call that reaches the route handler
ReachesHandler(r) == Generate(r) /\ ~r.malformed /\ ~UnexpectedFile(r)

\* the response is the JSON envelope {error: msg, ...} with status s
IsEnvelope(r, s, msg) ==
  /\ r.type = "json"
  /\ r.status = s
  /\ "error" \in DOMAIN r.body
  /\ r.body.error = msg

\* the upstream call of the request has settled with an HTTP response
Settled ==
  /\ rpc = "done"
  /\ Len(upstreamCalls) = 1
  /\ "outcome" \in DOMAIN upstreamCalls[1]
  /\ upstreamCalls[1].outcome.kind = "response"

UpstreamAnswer == upstreamCalls[1].outcome

RECURSIVE Base64Decode(_)
Base64Decode(s) ==
  IF Len(s) = 0 THEN << >>
  ELSE LET Index(c) == CHOOSE i \in 0..63 : B64Chars[i + 1] = c
           a == Index(s[1])
           b == Index(s[2])
       IN  IF s[3] = "=" THEN << a * 4 + (b \div 16) >>
           ELSE LET c == Index(s[3])
                IN  IF s[4] = "="
                    THEN << a * 4 + (b \div 16), (b % 16) * 16 + (c \div 4) >>
                    ELSE << a * 4 + (b \div 16), (b % 16) * 16 + (c \div 4),
                            (c % 4) * 64 + Index(s[4]) >>
                         \o Base64Decode(SubSeq(s, 5, Len(s)))

\* C2 (as stated): with the credential unset, every Generate call (here:
\* every one whose body the relay could read), the one with neither prompt
\* nor image included, is answered with the 500 'API_KEY not configured'
\* error and no upstream call is made.
C2_Original ==
  (rpc = "done" /\ Unset /\ ReachesHandler(req)) =>
     /\ IsEnvelope(res, 500, "API_KEY not configured in .env file")
     /\ upstreamCalls = << >>

\* C2 (amended): with the credential unset no Generate call makes an
\* upstream call; a call that reaches the route handler with an image or a
\* non-empty prompt is answered with the 500 'API_KEY not configured' error,
\* and one that reaches it with neither is answered with the 400 error.
C2_Amended ==
  Unset =>
     /\ upstreamCalls = << >>
     /\ (rpc = "done" /\ ReachesHandler(req) /\ (HasImage(req) \/ HasPrompt(req)))
          => IsEnvelope(res, 500, "API_KEY not configured in .env file")
     /\ (rpc = "done" /\ ReachesHandler(req) /\ ~HasImage(req) /\ ~HasPrompt(req))
          => IsEnvelope(res, 400, "Prompt is required when no image is uploaded")

C2_Witness ==
  /\ rpc = "done"
  /\ Unset
  /\ HasImage(req)
  /\ IsEnvelope(res, 500, "API_KEY not configured in .env file")
  /\ upstreamCalls = << >>

\* C3: a Generate call with neither a non-empty prompt nor a file is
\* answered with status 400 (the 'Prompt is required' envelope when its body
\* was readable) and makes no upstream call, whatever the credential.
C3_MissingInput ==
  (rpc # "idle" /\ Generate(req) /\ ~HasPrompt(req) /\ req.file = NoFile) =>
     /\ upstreamCalls = << >>
     /\ rpc \notin { "await image", "await text" }
     /\ rpc = "done" => res.status = 400
     /\ (rpc = "done" /\ ~req.malformed)
          => IsEnvelope(res, 400, "Prompt is required when no image is uploaded")

C3_Witness ==
  /\ rpc = "done"
  /\ Generate(req)
  /\ Unset
  /\ ~req.malformed
  /\ req.prompt = ""
  /\ req.file = NoFile
  /\ IsEnvelope(res, 400, "Prompt is required when no image is uploaded")

\* C4 (as stated): an upstream answer with a non-success status S and body B,
\* whatever B is, is relayed with status S in an envelope {error, details}
\* whose details are B.
C4_UpstreamErrorRelayed ==
  (Settled /\ ~Ok(UpstreamAnswer)) =>
     /\ res.type = "json"
     /\ res.status = UpstreamAnswer.status
     /\ DOMAIN res.body = { "error", "details" }
     /\ res.body.details = UpstreamAnswer.body.value

\* C5 (as stated): every failure while a Generate request is served is
\* answered with a JSON envelope {error, ...} and an error status.
C5_AllFailuresEnveloped ==
  (rpc = "done" /\ Generate(req) /\ (res.type # "json" \/ res.status >= 400)) =>
     /\ res.type = "json"
     /\ res.status >= 400
     /\ "error" \in DOMAIN res.body

\* C6: a Generate call with an image and a set credential makes one upstream
\* call whose payload has one contents entry of exactly two parts, the
\* inline data (MIME type, image/jpeg when undetected, and the base64 of the
\* image) and the text (the prompt, or the default prompt when the prompt is
\* absent or empty).
C6_MultimodalPayload ==
  (rpc \in { "await image", "done" } /\ HasImage(req) /\ ~Unset) =>
     /\ Len(upstreamCalls) = 1
     /\ LET payload == upstreamCalls[1].body
        IN  /\ DOMAIN payload = { "contents" }
            /\ Len(payload.contents) = 1
            /\ DOMAIN payload.contents[1] = { "parts" }
            /\ LET parts == payload.contents[1].parts
               IN  /\ Len(parts) = 2
                   /\ DOMAIN parts[1] = { "inline_data" }
                   /\ DOMAIN parts[1].inline_data = { "mime_type", "data" }
                   /\ parts[1].inline_data.mime_type =
                        (IF req.file.mimetype = "" THEN "image/jpeg"
                         ELSE req.file.mimetype)
                   /\ Base64Decode(parts[1].inline_data.data) = req.file.buffer
                   /\ Len(parts[1].inline_data.data) =
                        4 * ((Len(req.file.buffer) + 2) \div 3)
                   /\ DOMAIN parts[2] = { "text" }
                   /\ parts[2].text =
                        (IF HasPrompt(req) THEN req.prompt
                         ELSE "What is in this image? Describe it in detail.")

C6_Witness ==
  /\ rpc = "await image"
  /\ HasImage(req)
  /\ req.prompt = undefined
  /\ req.file.mimetype = ""
  /\ Len(req.file.buffer) = 3
  /\ Len(upstreamCalls) = 1
  /\ upstreamCalls[1].body.contents[1].parts[2].text =
       "What is in this image? Describe it in detail."

\* C7: a Generate call without a file, with a non-empty prompt P and a set
\* credential, makes one upstream call whose payload is exactly
\* {contents: [{parts: [{text: P}]}]}.
C7_TextPayload ==
  (rpc \in { "await text", "done" } /\ req.file = NoFile /\ HasPrompt(req) /\ ~Unset) =>
     /\ Len(upstreamCalls) = 1
     /\ LET payload == upstreamCalls[1].body
        IN  /\ DOMAIN payload = { "contents" }
            /\ Len(payload.contents) = 1
            /\ DOMAIN payload.contents[1] = { "parts" }
            /\ Len(payload.contents[1].parts) = 1
            /\ DOMAIN payload.contents[1].parts[1] = { "text" }
            /\ payload.contents[1].parts[1].text = req.prompt

C7_Witness ==
  /\ rpc = "await text"
  /\ req.prompt = "Hello"
  /\ req.file = NoFile
  /\ Len(upstreamCalls) = 1
  /\ upstreamCalls[1].body = [ contents |-> << [ parts |-> << [ text |-> "Hello" ] >> ] >> ]

C1_OneOutstanding == Cardinality(requests) <= 1

\* C9 (as stated): a successful reply is rendered in full at once if and only
\* if its request was sent as multipart with an image, and is revealed word
\* by word otherwise, whatever attach and remove events fall between the send
\* and the reply.
C9_RenderingFollowsSend ==
  [][ \A r \in requests :
        LET at == IncomingAt(chatList', r.rid)
        IN  (r \notin requests' /\ at # 0 /\ chatList'[at].content.kind # "error")
              => ((chatList'[at].content.kind = "html") <=> r.multipart) ]_vars

\* C10 (as stated): once the failure of a request has been handled (its error
\* message is in the visible list), the visible list holds no loading
\* indicator of that request, whether its 500 ms timer fired before or after.
C10_NoLoadingAfterFailure ==
  \A i \in 1..Len(chatList) :
    (chatList[i].cls = "incoming" /\ chatList[i].content.kind = "error") =>
       \A j \in 1..Len(chatList) :
          ~(chatList[j].cls = "loading" /\ chatList[j].rid = chatList[i].rid)

\* the first k of words joined by single spaces
RECURSIVE JoinFirst(_, _)
JoinFirst(words, k) ==
  IF k = 0 THEN << >>
  ELSE IF k = 1 THEN words[1]
  ELSE JoinFirst(words, k - 1) \o << " " >> \o words[k]

\* the step handles the successful reply (one with a first-candidate text) of
\* request r
RepliedTo(r) ==
  /\ r \in requests
  /\ r \notin requests'
  /\ Len(chatHistory') = Len(chatHistory) + 1

\* the step handles a failure of request r
FailedFor(r) ==
  /\ r \in requests
  /\ r \notin requests'
  /\ Len(chatHistory') # Len(chatHistory) + 1

\* the source text of the reply the step handles
RepliedText == FirstCandidateText(chatHistory'[Len(chatHistory')].apiResponse)

\* C11 (as stated): the successful reply to every request sent without an
\* image starts a reveal of its source text T over the n tokens of T split on
\* single spaces; every tick of a reveal shows one token more, the k-th tick
\* the first k tokens joined by single spaces, and the n-th tick ends the
\* reveal and replaces the element's content with the markdown rendering of T.
C11_RevealedByTicks ==
  [][ /\ \A r \in requests :
           (RepliedTo(r) /\ ~r.multipart) =>
              \E iv \in intervals' \ intervals :
                 /\ iv.rid = r.rid
                 /\ iv.currWordIndex = 0
                 /\ iv.words = SplitOnSpace(RepliedText)
                 /\ iv.parsedText = Marked(RepliedText)
      /\ \A iv \in intervals \ intervals' :
           LET k  == iv.currWordIndex + 1
               at == IncomingAt(chatList', iv.rid)
           IN  IF k = Len(iv.words)
               THEN /\ \A i \in intervals' : i.rid # iv.rid
                    /\ at # 0 => chatList'[at].content
                                   = [ kind |-> "html", html |-> iv.parsedText ]
               ELSE /\ [ iv EXCEPT !.currWordIndex = k ] \in intervals'
                    /\ at # 0 => chatList'[at].content
                                   = [ kind |-> "text", text |-> JoinFirst(iv.words, k) ]
    ]_vars

\* C12: a submit whose trimmed text is empty, made while no attachment is
\* pending, changes neither the visible list, the history, the pending
\* attachment and its preview nor the in-flight flag, and starts no request
\* and no timer.
C12_EmptySubmitIgnored ==
  [][ (prompt # "" /\ prompt' = "" /\ attachedImageFile = null) =>
         UNCHANGED << chatList, chatHistory, attachedImageFile, imagePreview,
                      isResponseGenerating, requests, timeouts, intervals >>
    ]_vars

\* an empty submit has been ignored by an idle client that holds the one
\* exchange of an earlier submit of "hi"
C12_Witness ==
  /\ prompt = ""
  /\ attachedImageFile = null
  /\ ~isResponseGenerating
  /\ Len(chatHistory) = 1
  /\ chatHistory[1].userMessage = "hi"
  /\ Len(chatList) = 2
  /\ requests = {}
  /\ timeouts = {}
  /\ intervals = {}

\* C13: a confirmed clear-history leaves the visible list and the history
\* empty and no attachment and no preview pending; a declined one changes
\* nothing of the client.
C13_ClearHistory ==
  [][ /\ (prompt # null /\ prompt' = null) =>
            /\ chatList' = << >>
            /\ chatHistory' = << >>
            /\ attachedImageFile' = null
            /\ imagePreview' = null
      /\ DeleteChatAnswered(FALSE) => UNCHANGED clientVars
    ]_vars

\* the history was cleared while a request was outstanding and, since then,
\* nothing was submitted
C13_Witness ==
  /\ prompt = null
  /\ requests # {}
  /\ chatList = << >>
  /\ chatHistory = << >>
  /\ attachedImageFile = null
  /\ imagePreview = null

\* C14: the pending attachment is one image or none and the preview shows
\* it; selecting a file makes that file the pending attachment, whatever was
\* pending before, and a change event without a file leaves it as it was.
C14_OnePendingAttachment ==
  [][ /\ attachedImageFile' \in ImageFiles \cup { null }
      /\ imagePreview' = attachedImageFile'
      /\ \A file \in ImageFiles \cup { undefined } :
            ImageSelected(file) =>
               IF file = undefined
               THEN UNCHANGED << attachedImageFile, imagePreview >>
               ELSE attachedImageFile' = file /\ imagePreview' = file
    ]_vars

\* a second file was selected while the first was pending and a request was
\* outstanding: the first file was "cat.png", the file of the request's
\* outgoing element
C14_Witness ==
  /\ attachedImageFile = "dog.png"
  /\ imagePreview = "dog.png"
  /\ \E i \in 1..Len(chatList) :
        chatList[i].cls = "outgoing" /\ chatList[i].content.image = "cat.png"
  /\ requests # {}

\* C16: when every outstanding request settles and the timers keep firing, a
\* client whose in-flight flag is set gets back to idle, the flag cleared.
C16_BackToIdle == isResponseGenerating ~> ~isResponseGenerating

\* the client is idle again after the last tick of the reveal of a reply to
\* a request sent without an image
C16_Witness ==
  /\ ~isResponseGenerating
  /\ requests = {}
  /\ intervals = {}
  /\ timeouts = {}
  /\ Len(chatHistory) = 1
  /\ "imageUrl" \notin DOMAIN chatHistory[1]
  /\ Len(chatList) = 2
  /\ chatList[2].cls = "incoming"
  /\ chatList[2].content.kind = "html"

\* C17 (as stated): the history changes only by a confirmed clear or by the
\* handling of a reply; a failure appends nothing and a successful reply
\* appends exactly one Exchange at the end, with the user text of the
\* reply's request, the reply payload as received, and an image reference if
\* and only if the request was sent with an image.
C17_OneExchangePerReply ==
  [][ /\ \A r \in requests :
           /\ FailedFor(r) => chatHistory' = chatHistory
           /\ RepliedTo(r) =>
                LET e == chatHistory'[Len(chatHistory')]
                IN  /\ SubSeq(chatHistory', 1, Len(chatHistory)) = chatHistory
                    /\ e.userMessage = r.userPrompt
                    /\ e.apiResponse \in { WithText(t) : t \in ReplyTexts }
                    /\ ("imageUrl" \in DOMAIN e) <=> r.multipart
      /\ (requests \subseteq requests') =>
            (chatHistory' = chatHistory \/ chatHistory' = << >>)
    ]_vars

\* C18 (as stated): the handling of a request's outcome clears the pending
\* attachment if and only if the outcome is a success and the request was
\* sent with an attachment; a failure, and the success of a request sent
\* without one, leave the pending attachment as it is.
C18_ClearedOnlyWhenSent ==
  [][ \A r \in requests :
        /\ FailedFor(r) => UNCHANGED << attachedImageFile, imagePreview >>
        /\ (RepliedTo(r) /\ ~r.multipart) =>
              UNCHANGED << attachedImageFile, imagePreview >>
        /\ (RepliedTo(r) /\ r.multipart) =>
              (attachedImageFile' = null /\ imagePreview' = null)
    ]_vars

\* C19 (as stated): once the history and the visible list are empty they stay
\* empty until a submission is accepted, whatever reply, failure, loading
\* timer or reveal tick of an earlier request arrives in between.
C19_StaysEmpty ==
  [][ (chatList = << >> /\ chatHistory = << >> /\ requests' \subseteq requests) =>
         (chatList' = << >> /\ chatHistory' = << >>)
    ]_vars

\* C20 (as stated): at most one reveal timer is active, and while one is
\* active the in-flight flag is set and no request is outstanding.
C20_OneReveal ==
  /\ Cardinality(intervals) <= 1
  /\ intervals # {} => (isResponseGenerating /\ requests = {})

\* the places where a route handler runs
InRouteHandler ==
  rpc \in { "app.get /", "app.get /api/config", "handler", "await image", "await text" }

\* C15 (as stated): a request from another origin than the allowed one is
\* rejected before any route: no route handler runs for it, no upstream call
\* is made and its answer is an error that carries neither a route's payload
\* nor the credential; a preflight is answered with a success status and no
\* route handler runs for it.
C15_OriginBoundary ==
  /\ (rpc # "idle" /\ req.method # "OPTIONS" /\ req.origin # AllowedOrigin) =>
        /\ ~InRouteHandler
        /\ upstreamCalls = << >>
        /\ rpc = "done" => (res.status >= 400 /\ res # Config(API_KEY) /\ res # Running)
  /\ (rpc # "idle" /\ req.method = "OPTIONS") =>
        /\ ~InRouteHandler
        /\ rpc = "done" => (res.status >= 200 /\ res.status <= 299)
====
